---- MODULE Spec2Model ----
(***************************************************************************)
(* A model of t5/data/utils.py: the Task and Mixture registries, Task      *)
(* construction and name validation, the stages of the Task pipeline      *)
(* (text stage, tokenizer, token stage with validation, trim and EOS),     *)
(* Task cache resolution, the memoized LazyTfdsLoader and the override of  *)
(* its data directory, Mixture construction, split filtering and rate      *)
(* assignment, rate_num_examples and the mixing diagnostics.               *)
(*                                                                         *)
(* Conventions.  A Python optional is a set with at most one element       *)
(* (None is {}).  A Python str that the code inspects character by         *)
(* character (a Task name, a TFDS name) is a tuple of one-character        *)
(* strings.  A raised exception is a record [ok |-> FALSE, err |-> kind];  *)
(* the kinds are the error names of the design's taxonomy, each noted with *)
(* the Python exception that the source raises.                            *)
(***************************************************************************)
EXTENDS Integers, Sequences, FiniteSets, TLC

VARIABLES
  global_cache_dirs,  \* _GLOBAL_CACHE_DIRECTORIES
  completed,          \* the directories <<root, task name>> holding a COMPLETED file
  heap,               \* the live provider instances (Task, Mixture), by identity
  next_id,            \* the identity the next constructed instance gets
  task_registry,      \* TaskRegistry._REGISTRY: name -> identity
  mixture_registry,   \* MixtureRegistry._REGISTRY: name -> identity
  call,               \* the call being made or made last, with its arguments
  ret,                \* what that call returned or raised
  tfds_data_dir_override,  \* _TFDS_DATA_DIR_OVERRIDE
  memoized_instances, \* LazyTfdsLoader._MEMOIZED_INSTANCES: key -> identity
  loaders             \* the LazyTfdsLoader instances, by identity

loader_vars == <<tfds_data_dir_override, memoized_instances, loaders>>

vars == <<global_cache_dirs, completed, heap, next_id, task_registry,
          mixture_registry, call, ret, loader_vars>>

\* ------------------------------------------------------------------------
\* Python values

None == {}
Some(x) == {x}
IsNone(o) == o = {}
The(o) == CHOOSE x \in o : TRUE

Range(s) == {s[i] : i \in 1..Len(s)}
SeqsUpTo(S, n) == UNION {[1..k -> S] : k \in 0..n}
Min(a, b) == IF a <= b THEN a ELSE b
Max(a, b) == IF a >= b THEN a ELSE b

Ok(v) == [ok |-> TRUE, val |-> v]
Raise(e) == [ok |-> FALSE, err |-> e]
Pending == [ok |-> FALSE, err |-> "pending"]
NoCall == [op |-> "none"]

EmptyDict == [k \in {} |-> 0]
DictSet(d, k, v) == [x \in (DOMAIN d) \cup {k} |-> IF x = k THEN v ELSE d[x]]

\* v[:stop] for a Python (and TensorFlow) sequence: a negative stop counts
\* from the end.
SliceTo(v, stop) ==
  LET n == Len(v)
      e == IF stop < 0 THEN Max(n + stop, 0) ELSE Min(stop, n)
  IN  SubSeq(v, 1, e)

\* ------------------------------------------------------------------------
\* Bounds of the model

MaxLen == 2       \* longest token sequence of an input example
MaxDirs == 2      \* longest list of global cache roots
MaxTasks == 2     \* longest task list given to a Mixture
MaxNameLen == 2   \* longest Task name tried on the name check

\* ------------------------------------------------------------------------
\* Program constants

EOS == 1
DEFAULT_FEATURE_KEYS == <<"inputs", "targets">>

\* The feature names of the model in sorted() order.
FeatureOrder == <<"inputs", "targets">>
Features == Range(FeatureOrder)

\* sorted(set(xs)) for a list of feature names
SortedSet(xs) == SelectSeq(FeatureOrder, LAMBDA f : f \in Range(xs))

\* ------------------------------------------------------------------------
\* Task names and the name check

\* The characters of the model: ASCII letters, a digit, underscore, dot,
\* space, slash, line feed, and "U+00E9", which stands for the one
\* character e-acute, a letter outside ASCII.
AsciiWordChars == {"a", "b", "Z", "7", "_"}
UnicodeWordChars == {"U+00E9"}
OtherChars == {".", " ", "/", "\n"}
NameChars == AsciiWordChars \cup UnicodeWordChars \cup OtherChars

\* \w of Python's re for a str pattern: [a-zA-Z0-9_], and under Python 3
\* (re_unicode) every Unicode letter and digit as well.
IsWordChar(c, re_unicode) ==
  c \in AsciiWordChars \/ (re_unicode /\ c \in UnicodeWordChars)

\* [\w\d\._]
InNameClass(c, re_unicode) ==
  IsWordChar(c, re_unicode) \/ c = "7" \/ c = "." \/ c = "_"

\* _VALID_TASK_NAME_REGEX.match(name) for ^[\w\d\._]+$ : one or more class
\* characters from the start, then $, which (without re.MULTILINE) matches
\* at the end of the string and also just before a line feed that ends it.
RegexMatch(name, re_unicode) ==
  \E p \in 1..Len(name) :
     /\ \A i \in 1..p : InNameClass(name[i], re_unicode)
     /\ \/ p = Len(name)
        \/ p = Len(name) - 1 /\ name[Len(name)] = "\n"

\* ------------------------------------------------------------------------
\* Task

\* Python truthiness of an optional list: None and [] are false.
TruthyList(o) == ~IsNone(o) /\ The(o) # <<>>

\* Task.__init__.  The keyword arguments kw hold tfds_name (a tuple of
\* tokens, ":" among them when a version is given), tfds_data_dir,
\* text_preprocessor, token_preprocessor, sentencepiece_model_path,
\* output_features and splits; metric_fns and postprocess_fn are stored and
\* never read by the code modelled here.
\* InvalidName and InvalidTfdsName are both ValueError.
TaskInit(name, kw, re_unicode) ==
  IF ~RegexMatch(name, re_unicode) THEN Raise("InvalidName")
  ELSE IF ":" \notin Range(kw.tfds_name) THEN Raise("InvalidTfdsName")
  ELSE Ok([cls |-> "Task",
           name |-> name,
           tfds |-> <<kw.tfds_name, kw.tfds_data_dir>>,
           text_preprocessor |->
             IF IsNone(kw.text_preprocessor) THEN <<>>
             ELSE The(kw.text_preprocessor),
           token_preprocessor |->
             IF IsNone(kw.token_preprocessor) THEN <<>>
             ELSE The(kw.token_preprocessor),
           sentencepiece_model_path |-> kw.sentencepiece_model_path,
           cache_dir |-> None,
           stats |-> EmptyDict,
           output_features |->
             SortedSet(IF TruthyList(kw.output_features)
                       THEN The(kw.output_features)
                       ELSE DEFAULT_FEATURE_KEYS),
           splits |-> kw.splits])

\* Keyword arguments of a Task that leaves every option at its default.
NoKw == [tfds_name |-> <<"ds", ":", "1.0.0">>,
         tfds_data_dir |-> None,
         text_preprocessor |-> None,
         token_preprocessor |-> None,
         sentencepiece_model_path |-> "spm1",
         output_features |-> None,
         splits |-> None]

\* ------------------------------------------------------------------------
\* Datasets and the token stage.  A dataset is modelled by one example and
\* its signature: a dict from feature name to [dtype, rank, v], v the
\* sequence of token ids (for a string feature, of its pieces).

\* Preprocessors are functions supplied by the caller.  The model has two
\* token preprocessors: "prefix" puts token 3 in front of the inputs, and
\* "eos_mark" (a defective one) ends the targets with the EOS id itself;
\* and two text preprocessors: "append_y" ends the text of the inputs with
\* a "y" (and leaves inputs that are no text alone), and "drop_targets"
\* (a defective one) gives examples without targets.
ApplyPrep(fn, ds, sequence_length) ==
  CASE fn = "append_y" ->
         IF "inputs" \in DOMAIN ds /\ ds["inputs"].dtype = "string"
         THEN [ds EXCEPT !["inputs"].v = @ \o <<"y">>] ELSE ds
    [] fn = "drop_targets" ->
         [k \in (DOMAIN ds) \ {"targets"} |-> ds[k]]
    [] fn = "prefix" ->
         IF "inputs" \in DOMAIN ds
         THEN [ds EXCEPT !["inputs"].v = <<3>> \o @] ELSE ds
    [] fn = "eos_mark" ->
         IF "targets" \in DOMAIN ds
         THEN [ds EXCEPT !["targets"].v = @ \o <<EOS>>] ELSE ds
    [] OTHER -> ds

\* Task._preprocess_dataset: the preprocessors applied in order.
RECURSIVE PreprocessDataset(_, _, _)
PreprocessDataset(ds, preprocessors, sequence_length) ==
  IF preprocessors = <<>> THEN ds
  ELSE PreprocessDataset(ApplyPrep(Head(preprocessors), ds, sequence_length),
                         Tail(preprocessors), sequence_length)

\* Mutant: only the last element is compared with EOS.
EnsureNoEos_LastOnly(self, feat, v) ==
  \/ feat \notin Range(self.output_features)
  \/ Len(v) = 0
  \/ v[Len(v)] # EOS

\* Mutant: an EOS that ends the sequence is let through.
EnsureNoEos_AllowFinal(self, feat, v) ==
  \/ feat \notin Range(self.output_features)
  \/ \A i \in 1..(Len(v) - 1) : v[i] # EOS

\* _ensure_no_eos(feat, v): TRUE when the assertion passes.
EnsureNoEos(self, feat, v) ==
  \/ feat \notin Range(self.output_features)
  \/ \A i \in 1..Len(v) : v[i] # EOS

\* Task._validate_dataset.  SchemaError is ValueError, raised when the
\* pipeline is built; UnexpectedEosError is the failed assertion, raised when
\* the example is produced.
ValidateDataset(self, ds, expected_output_type, expected_output_rank, ensure_no_eos) ==
  IF \E feat \in Range(self.output_features) :
        \/ feat \notin DOMAIN ds
        \/ ds[feat].dtype # expected_output_type
        \/ ds[feat].rank # expected_output_rank
  THEN Raise("SchemaError")
  ELSE IF ensure_no_eos /\ \E k \in DOMAIN ds : ~EnsureNoEos(self, k, ds[k].v)
  THEN Raise("UnexpectedEosError")
  ELSE Ok(ds)

\* Mutant: the slice keeps sequence_length[feat] elements, not one fewer.
TrimAndAppendEos_OffByOne(self, sequence_length, feat, v) ==
  IF feat \notin Range(self.output_features) THEN v
  ELSE SliceTo(v, sequence_length[feat]) \o <<EOS>>

\* _trim_and_append_eos(feat, v)
TrimAndAppendEos(self, sequence_length, feat, v) ==
  IF feat \notin Range(self.output_features) THEN v
  ELSE SliceTo(v, sequence_length[feat] - 1) \o <<EOS>>

\* Mutant: the examples are trimmed and ended before the token
\* preprocessors run.
PreprocessTokens_TrimFirst(self, dataset, sequence_length) ==
  LET d0 == [k \in DOMAIN dataset |->
               [dataset[k] EXCEPT
                  !.v = TrimAndAppendEos(self, sequence_length, k, @)]]
      d2 == ValidateDataset(self,
                            PreprocessDataset(dataset, self.token_preprocessor,
                                              sequence_length),
                            "int64", 1, TRUE)
  IN  IF ~d2.ok THEN d2
      ELSE Ok(PreprocessDataset(d0, self.token_preprocessor,
                                sequence_length))

\* Task.preprocess_tokens
PreprocessTokens(self, dataset, sequence_length) ==
  LET d1 == PreprocessDataset(dataset, self.token_preprocessor,
                              sequence_length)
      d2 == ValidateDataset(self, d1, "int64", 1, TRUE)
  IN  IF ~d2.ok THEN d2
      ELSE Ok([k \in DOMAIN d1 |->
                 [d1[k] EXCEPT
                    !.v = TrimAndAppendEos(self, sequence_length, k, @)]])

\* ------------------------------------------------------------------------
\* The world outside: the TFDS backend, the tokenizer and the cache files.

Roots == {"r1", "r2"}
Splits == {"train", "validation", "test"}

\* info.splits of a TFDS dataset, by the first token of its name.
TfdsSplits(tfds_name) ==
  IF Head(tfds_name) = "small" THEN {"train"} ELSE {"train", "validation"}

\* An example of tfds.load(name, split): string scalars, a string being the
\* sequence of its characters.
RawExample(tfds_name, split) ==
  [f \in Features |->
     [dtype |-> "string", rank |-> 0,
      v |-> IF f = "inputs" THEN <<"x", "y">> ELSE <<"y">>]]

\* vocabulary.encode_tf: the id of each piece of the text.
PieceId(c) == IF c = "x" THEN 2 ELSE 3
EncodeTf(text) == [i \in 1..Len(text) |-> PieceId(text[i])]

PlaintextKey(k) ==
  IF k = "inputs" THEN "inputs_plaintext" ELSE "targets_plaintext"

\* os.path.join(d, name)
PathJoin(d, name) == <<d, name>>

\* The sidecar files of a cache directory.  Caches under r1 are whole; those
\* under r2 lack the statistics of the training split.  A split has its info
\* file (and shards) when the cached dataset has the split.
HasInfoFile(cache_dir, split) == split \in {"train", "validation"}
HasStatsFile(cache_dir, split) ==
  /\ split \in {"train", "validation"}
  /\ ~(cache_dir[1] = "r2" /\ split = "train")

\* json.load of stats.<split>.json
StatsFile(cache_dir, split) ==
  [examples |-> IF split = "train" THEN 4 ELSE 2,
   inputs_tokens |-> IF split = "train" THEN 8 ELSE 4,
   targets_tokens |-> IF split = "train" THEN 4 ELSE 2]

\* An example parsed from the cached shards: tokenized already, with the
\* plaintext copies the cache writer kept.
CachedExample(self, split) ==
  LET raw == RawExample(self.tfds[1], split)
  IN  [k \in Features \cup {PlaintextKey(f) : f \in Features} |->
         IF k \in Features
         THEN [dtype |-> "int64", rank |-> 1, v |-> EncodeTf(raw[k].v)]
         ELSE raw[CHOOSE f \in Features : PlaintextKey(f) = k]]

\* ------------------------------------------------------------------------
\* Task: cache resolution.  Each operator that may change the Task returns
\* [self |-> the Task afterwards, ret |-> the value returned or raised].

\* The loop of Task.initialize: the first potential cache directory that
\* holds COMPLETED, or None.
RECURSIVE FirstCompleted(_, _)
FirstCompleted(potential_cache_dirs, markers) ==
  IF potential_cache_dirs = <<>> THEN None
  ELSE IF Head(potential_cache_dirs) \in markers
       THEN Some(Head(potential_cache_dirs))
       ELSE FirstCompleted(Tail(potential_cache_dirs), markers)

\* Mutant: no early return, every call searches again.
Initialize_NoMemo(self, dirs, markers) ==
  LET potential_cache_dirs ==
        [i \in 1..Len(dirs) |-> PathJoin(dirs[i], self.name)]
  IN  [self EXCEPT
         !.cache_dir = FirstCompleted(potential_cache_dirs, markers)]

\* Task.initialize
Initialize(self, dirs, markers) ==
  IF ~IsNone(self.cache_dir) THEN self
  ELSE LET potential_cache_dirs ==
             [i \in 1..Len(dirs) |-> PathJoin(dirs[i], self.name)]
       IN  [self EXCEPT
              !.cache_dir = FirstCompleted(potential_cache_dirs, markers)]

\* Task.cached, from the Task that initialize() leaves.
CachedOf(s1) == [self |-> s1, ret |-> Ok(~IsNone(s1.cache_dir))]

\* Task.cached
Cached(self, dirs, markers) == CachedOf(Initialize(self, dirs, markers))

\* Task.assert_cached: NotCached is the AssertionError.
AssertCached(self, dirs, markers) ==
  [CachedOf(Initialize(self, dirs, markers)) EXCEPT
     !.ret = IF @.val THEN Ok(None) ELSE Raise("NotCached")]

\* Task.cache_dir, after its assert_cached() (a).
CacheDirOf(a) ==
  IF ~a.ret.ok THEN a
  ELSE [self |-> a.self, ret |-> Ok(a.self.cache_dir)]

\* Task.cache_dir
CacheDir(self, dirs, markers) == CacheDirOf(AssertCached(self, dirs, markers))

\* Task.get_cached_stats after its assert_cached() (a): MissingStats is the
\* ValueError.
CachedStatsOf(a, split) ==
  IF ~a.ret.ok THEN a
  ELSE IF split \in DOMAIN a.self.stats
  THEN [self |-> a.self, ret |-> Ok(a.self.stats[split])]
  ELSE IF ~HasStatsFile(The(a.self.cache_dir), split)
  THEN [self |-> a.self, ret |-> Raise("MissingStats")]
  ELSE [self |-> [a.self EXCEPT
                    !.stats = DictSet(@, split,
                                      StatsFile(The(a.self.cache_dir), split))],
        ret |-> Ok(StatsFile(The(a.self.cache_dir), split))]

\* Task.get_cached_stats
GetCachedStats(self, split, dirs, markers) ==
  CachedStatsOf(AssertCached(self, dirs, markers), split)

\* ------------------------------------------------------------------------
\* Task: dataset retrieval.  A returned stream is [task, source, ex,
\* mem_cached, shuffled]: the Task it is of, where the examples come from,
\* the example, whether the split is kept in memory (ds.cache()) and whether
\* the buffer shuffle was applied.

MAX_EXAMPLES_TO_MEM_CACHE == 1000

\* LazyTfdsLoader.load: InvalidSplit is the ValueError of verify_split.
TfdsLoad(tfds, split, shuffle_files) ==
  IF split \notin TfdsSplits(tfds[1]) THEN Raise("InvalidSplit")
  ELSE Ok(RawExample(tfds[1], split))

\* Task.preprocess_text
PreprocessText(self, dataset) ==
  ValidateDataset(self,
                  PreprocessDataset(dataset, self.text_preprocessor, EmptyDict),
                  "string", 0, FALSE)

\* encode_string_features
EncodeStringFeatures(dataset, keys, copy_plaintext) ==
  LET encoded == {k \in DOMAIN dataset :
                    dataset[k].dtype = "string" /\ k \in keys}
      copies == IF copy_plaintext THEN {PlaintextKey(k) : k \in encoded}
                ELSE {}
  IN  [k \in (DOMAIN dataset) \cup copies |->
         IF k \in encoded
         THEN [dtype |-> "int64", rank |-> 1, v |-> EncodeTf(dataset[k].v)]
         ELSE IF k \in DOMAIN dataset THEN dataset[k]
         ELSE dataset[CHOOSE f \in encoded : PlaintextKey(f) = k]]

\* Task._get_cached_dataset: MissingInfo is the error of opening an info
\* file that is not there.
\* Task._get_cached_dataset after its assert_cached() (a) and its
\* get_cached_stats() (st).
CachedDatasetOf(a, st, split) ==
  IF ~a.ret.ok THEN a
  ELSE IF ~HasInfoFile(The(a.self.cache_dir), split)
  THEN [self |-> a.self, ret |-> Raise("MissingInfo")]
  ELSE IF ~st.ret.ok THEN st
  ELSE [self |-> st.self,
        ret |-> Ok([source |-> "cache",
                    ex |-> CachedExample(st.self, split),
                    mem_cached |->
                      st.ret.val.examples <= MAX_EXAMPLES_TO_MEM_CACHE])]

\* Task._get_cached_dataset after its assert_cached() (a).
CachedDatasetFrom(a, split, dirs, markers) ==
  CachedDatasetOf(a, GetCachedStats(a.self, split, dirs, markers), split)

\* Task._get_cached_dataset
GetCachedDataset(self, split, shuffle, dirs, markers) ==
  CachedDatasetFrom(AssertCached(self, dirs, markers), split, dirs, markers)

\* The on-the-fly branch of Task.get_dataset after the load (ds) and the
\* text stage (txt): the tokenizer.
RawDatasetOf(self, ds, txt) ==
  IF ~ds.ok THEN ds
  ELSE IF ~txt.ok THEN txt
  ELSE Ok([source |-> "raw",
           ex |-> EncodeStringFeatures(txt.val,
                                       Range(self.output_features), TRUE),
           mem_cached |-> FALSE])

\* The on-the-fly branch after the load (ds).
RawDatasetFrom(self, ds) == RawDatasetOf(self, ds, PreprocessText(self, ds.val))

\* The on-the-fly branch of Task.get_dataset: load, text stage, tokenizer.
GetRawDataset(self, split, shuffle) ==
  RawDatasetFrom(self, TfdsLoad(self.tfds, split, shuffle))

\* The end of Task.get_dataset, with the examples (c) and their token stage
\* (tok): the in-memory cache and the shuffle.
StreamOf(c, tok, shuffle) ==
  IF ~c.ret.ok THEN c
  ELSE IF ~tok.ok THEN [self |-> c.self, ret |-> tok]
  ELSE [self |-> c.self,
        ret |-> Ok([task |-> c.self.name,
                    source |-> c.ret.val.source,
                    ex |-> tok.val,
                    mem_cached |-> c.ret.val.mem_cached,
                    shuffled |-> shuffle])]

\* The rest of Task.get_dataset from the token stage on.
TokenizedOf(c, sequence_length, shuffle) ==
  StreamOf(c, PreprocessTokens(c.self, c.ret.val.ex, sequence_length), shuffle)

\* Mutant: a Task that is not cached is computed on the fly.
TaskGetDataset_Fallback(self, sequence_length, split, use_cached, shuffle, dirs, markers) ==
  TokenizedOf(IF use_cached /\ ~IsNone(Initialize(self, dirs, markers).cache_dir)
              THEN GetCachedDataset(self, split, shuffle, dirs, markers)
              ELSE [self |-> Initialize(self, dirs, markers),
                    ret |-> GetRawDataset(self, split, shuffle)],
              sequence_length, shuffle)

\* Task.get_dataset
TaskGetDataset(self, sequence_length, split, use_cached, shuffle, dirs, markers) ==
  TokenizedOf(IF use_cached
              THEN GetCachedDataset(self, split, shuffle, dirs, markers)
              ELSE [self |-> self, ret |-> GetRawDataset(self, split, shuffle)],
              sequence_length, shuffle)

\* ------------------------------------------------------------------------
\* Mixture.  A rate is [kind |-> "num", v |-> number] or [kind |-> "fn",
\* fn |-> the name of a function from Task to number].  An entry of the task
\* list is [name, rate]: rate None for a bare task name, Some(rate) for a
\* pair (task name, rate).

TaskA == <<"a">>
TaskB == <<"b">>

Num(n) == [kind |-> "num", v |-> n]
Fn(f) == [kind |-> "fn", fn |-> f]

\* rate(task) for a callable rate: rate_unsupervised with its default value,
\* or "rate_by_task", a function of the caller that tells the Tasks apart.
CallRate(fn, task) ==
  IF fn = "rate_unsupervised" THEN 1000000
  ELSE IF task.name = TaskA THEN 5 ELSE 7

\* The loop of Mixture.__init__ over the task list: MissingRate ("need a
\* rate for each task") and NotFound (TaskRegistry.get) are ValueError.
\* acc is [tasks, task_to_rate] so far.
RECURSIVE MixtureCollect(_, _, _, _)
MixtureCollect(tasks, default_rate, registry, acc) ==
  IF tasks = <<>> THEN Ok(acc)
  ELSE LET t == Head(tasks)
           rate == IF IsNone(t.rate) THEN default_rate ELSE t.rate
       IN  IF IsNone(t.rate) /\ IsNone(default_rate) THEN Raise("MissingRate")
           ELSE IF t.name \notin DOMAIN registry THEN Raise("NotFound")
           ELSE MixtureCollect(
                  Tail(tasks), default_rate, registry,
                  [tasks |-> Append(acc.tasks, registry[t.name]),
                   task_to_rate |-> DictSet(acc.task_to_rate, t.name,
                                            The(rate))])

\* Mutant: the tokenizer-model paths of the Tasks are not compared.
MixtureInit_FeaturesOnly(tasks, default_rate, registry, hp) ==
  LET c == MixtureCollect(tasks, default_rate, registry,
                          [tasks |-> <<>>, task_to_rate |-> EmptyDict])
      members == Range(c.val.tasks)
  IN  IF ~c.ok THEN c
      ELSE IF Cardinality({hp[id].output_features : id \in members}) # 1
      THEN Raise("IncompatibleMixtureError")
      ELSE Ok([cls |-> "Mixture",
               tasks |-> c.val.tasks,
               task_to_rate |-> c.val.task_to_rate,
               given |-> [tasks |-> tasks, default_rate |-> default_rate]])

\* Mixture.__init__: IncompatibleMixtureError is ValueError.  The field
\* given keeps the constructor's arguments; the program does not keep them,
\* and only the statements of properties read it.
MixtureInit(tasks, default_rate, registry, hp) ==
  LET c == MixtureCollect(tasks, default_rate, registry,
                          [tasks |-> <<>>, task_to_rate |-> EmptyDict])
      members == Range(c.val.tasks)
  IN  IF ~c.ok THEN c
      ELSE IF Cardinality({hp[id].output_features : id \in members}) # 1
      THEN Raise("IncompatibleMixtureError")
      ELSE IF Cardinality({hp[id].sentencepiece_model_path :
                             id \in members}) # 1
      THEN Raise("IncompatibleMixtureError")
      ELSE Ok([cls |-> "Mixture",
               tasks |-> c.val.tasks,
               task_to_rate |-> c.val.task_to_rate,
               given |-> [tasks |-> tasks, default_rate |-> default_rate]])

\* Mixture.get_rate
GetRate(self, task) ==
  LET rate == self.task_to_rate[task.name]
  IN  IF rate.kind = "fn" THEN CallRate(rate.fn, task) ELSE rate.v

\* Task.splits, as a set
TaskSplits(task) ==
  IF TruthyList(task.splits) THEN Range(The(task.splits))
  ELSE TfdsSplits(task.tfds[1])

\* The list comprehension of Mixture.get_dataset that gets each Task's
\* dataset, repeats it and keeps the Mixture's output features.  The Tasks
\* are taken in order and the first error ends it; hp is the heap as the
\* calls so far left it, r what the get_dataset of the Task at hand gave.
RECURSIVE GetDatasets(_, _, _, _, _)
RECURSIVE GetDatasetsStep(_, _, _, _, _, _)
GetDatasetsStep(r, ids, features, args, hp, acc) ==
  LET hp1 == [hp EXCEPT ![Head(ids)] = r.self]
      ds == [task |-> r.ret.val.task,
             source |-> r.ret.val.source,
             ex |-> [k \in (DOMAIN r.ret.val.ex) \cap features |->
                       r.ret.val.ex[k]],
             mem_cached |-> r.ret.val.mem_cached,
             shuffled |-> r.ret.val.shuffled,
             repeat |-> TRUE]
  IN  IF ~r.ret.ok THEN [heap |-> hp1, ret |-> r.ret]
      ELSE GetDatasets(Tail(ids), features, args, hp1, Append(acc, ds))

GetDatasets(ids, features, args, hp, acc) ==
  IF ids = <<>> THEN [heap |-> hp, ret |-> Ok(acc)]
  ELSE GetDatasetsStep(TaskGetDataset(hp[Head(ids)], args.sequence_length,
                                      args.split, args.use_cached,
                                      args.shuffle, args.dirs, args.markers),
                       ids, features, args, hp, acc)

RECURSIVE SumSeq(_)
SumSeq(l) == IF l = <<>> THEN 0 ELSE Head(l) + SumSeq(Tail(l))

\* Mutant: the two cases the other way round.
EstimatedMeanLength_Swapped(task, key, sequence_length) ==
  LET st == task.stats["train"]
      tokens == IF key = "inputs" THEN st.inputs_tokens
                ELSE st.targets_tokens
  IN  IF task.token_preprocessor = <<>> THEN <<sequence_length[key], 1>>
      ELSE IF sequence_length[key] * st.examples <= tokens
           THEN <<sequence_length[key], 1>>
           ELSE <<tokens, st.examples>>

\* _estimated_mean_length(task, key) of _log_mixing_proportions, as the
\* fraction <<numerator, denominator>>.  The statistics of the training
\* split are loaded by then (Task._get_cached_dataset has read them).
EstimatedMeanLength(task, key, sequence_length) ==
  LET st == task.stats["train"]
      tokens == IF key = "inputs" THEN st.inputs_tokens
                ELSE st.targets_tokens
  IN  IF task.token_preprocessor # <<>> THEN <<sequence_length[key], 1>>
      ELSE IF sequence_length[key] * st.examples <= tokens
           THEN <<sequence_length[key], 1>>
           ELSE <<tokens, st.examples>>

\* _log_mixing_proportions (with _log_padding_fractions): it returns
\* nothing, so the model keeps only whether it raises.  _normalize divides
\* by the sum of its list; the empirical statistics read the "inputs" and
\* "targets" of the examples, and the padding fractions read every key of
\* sequence_length.
LogMixingProportions(tasks, datasets, rates, sequence_length, compute_stats_empirically, hp) ==
  LET n == Len(tasks)
      mean(key) ==
        [i \in 1..n |->
           IF compute_stats_empirically
           THEN <<Len(datasets[i].ex[key].v), 1>>
           ELSE EstimatedMeanLength(hp[tasks[i]], key, sequence_length)]
      weighted(key) == [i \in 1..n |-> mean(key)[i][1] * rates[i]]
  IN  IF SumSeq(rates) = 0 THEN Raise("ZeroDivisionError")
      ELSE IF compute_stats_empirically
              /\ \E i \in 1..n :
                    ~({"inputs", "targets"} \subseteq DOMAIN datasets[i].ex)
      THEN Raise("KeyError")
      ELSE IF ~compute_stats_empirically
              /\ \E i \in 1..n :
                    hp[tasks[i]].token_preprocessor = <<>>
                    /\ hp[tasks[i]].stats["train"].examples = 0
      THEN Raise("ZeroDivisionError")
      ELSE IF SumSeq(weighted("inputs")) = 0
              \/ SumSeq(weighted("targets")) = 0
      THEN Raise("ZeroDivisionError")
      ELSE IF compute_stats_empirically
              /\ \E k \in DOMAIN sequence_length :
                    k \notin DOMAIN datasets[1].ex
      THEN Raise("KeyError")
      ELSE Ok(None)

\* Mixture.get_dataset after the datasets of its Tasks (d): the rates, the
\* diagnostics and the merged stream [datasets, weights], which are the
\* arguments of sample_from_datasets.
MixtureStreamOf(self, tasks, d, sequence_length, split, use_cached, compute_stats_empirically) ==
  LET rates == [i \in 1..Len(tasks) |-> GetRate(self, d.heap[tasks[i]])]
      log == IF split = "train" /\ use_cached
             THEN LogMixingProportions(tasks, d.ret.val, rates,
                                       sequence_length,
                                       compute_stats_empirically, d.heap)
             ELSE Ok(None)
  IN  IF ~d.ret.ok THEN d
      ELSE IF ~log.ok THEN [heap |-> d.heap, ret |-> log]
      ELSE [heap |-> d.heap,
            ret |-> Ok([datasets |-> d.ret.val, weights |-> rates])]

\* Mixture.get_dataset: NoAvailableTasks is the ValueError.
MixtureGetDataset(self, sequence_length, split, use_cached, shuffle, compute_stats_empirically, hp, dirs, markers) ==
  LET tasks == SelectSeq(self.tasks, LAMBDA id : split \in TaskSplits(hp[id]))
  IN  IF tasks = <<>> THEN [heap |-> hp, ret |-> Raise("NoAvailableTasks")]
      ELSE MixtureStreamOf(
             self, tasks,
             GetDatasets(tasks, Range(hp[self.tasks[1]].output_features),
                         [sequence_length |-> sequence_length,
                          split |-> split, use_cached |-> use_cached,
                          shuffle |-> shuffle, dirs |-> dirs,
                          markers |-> markers],
                         hp, <<>>),
             sequence_length, split, use_cached, compute_stats_empirically)

\* ------------------------------------------------------------------------
\* LazyTfdsLoader.  An instance is a record of its fields _name, _data_dir
\* and _builder; `loaders` holds the instances by identity and
\* `memoized_instances` is _MEMOIZED_INSTANCES.  The field probed is a
\* history field, not a field of the class: whether tfds.builder was ever
\* called to fill _builder of this instance.

\* The directory tfds.builder reads when it is given none.
DefaultDataDir == "default"

\* Python truthiness of an optional str.
TruthyStr(o) == ~IsNone(o) /\ The(o) # ""

\* builder.BUILDER_CONFIGS of the dataset a TFDS name begins with.
BuilderConfigs(tfds_name) ==
  IF Head(tfds_name) = "multi" THEN {"c1", "c2"} ELSE {}

\* info.splits[split].num_examples, 0 for a very large dataset (as "multi"
\* is).
NumExamples(tfds_name, split) == IF Head(tfds_name) = "multi" THEN 0 ELSE 4

\* tfds.builder(name, data_dir=data_dir, config=config): the builder knows
\* the dataset's name, the directory it reads and its config.
TfdsBuilder(tfds_name, data_dir, config) ==
  [name |-> tfds_name,
   data_dir |-> IF IsNone(data_dir) THEN DefaultDataDir ELSE The(data_dir),
   config |-> config]

\* builder.info: the splits, and the directory the metadata is read from.
BuilderInfo(builder) ==
  [splits |-> TfdsSplits(builder.name), data_dir |-> builder.data_dir]

\* Mutant: __new__ without the memo, every construction a new instance.
LazyTfdsLoaderNew_Fresh(memo, lds, name, data_dir) ==
  [memo |-> DictSet(memo, <<name, data_dir>>, Len(lds) + 1),
   loaders |-> Append(lds, [name |-> name, data_dir |-> data_dir,
                            builder |-> None, probed |-> FALSE]),
   id |-> Len(lds) + 1]

\* LazyTfdsLoader(name, data_dir): __new__ gives the instance memoized for
\* the key (name, data_dir), a new one if there is none, and __init__ then
\* assigns the three fields of whichever instance that is.
LazyTfdsLoaderNew(memo, lds, name, data_dir) ==
  LET key == <<name, data_dir>>
      known == key \in DOMAIN memo
      id == IF known THEN memo[key] ELSE Len(lds) + 1
  IN  [memo |-> IF known THEN memo ELSE DictSet(memo, key, id),
       loaders |-> IF known
                   THEN [lds EXCEPT ![id] = [name |-> name,
                                             data_dir |-> data_dir,
                                             builder |-> None,
                                             probed |-> @.probed]]
                   ELSE Append(lds, [name |-> name, data_dir |-> data_dir,
                                     builder |-> None, probed |-> FALSE]),
       id |-> id]

\* Mutant: the override wins only over an instance with no directory.
LoaderDataDir_OwnFirst(self, override) ==
  IF TruthyStr(self.data_dir) THEN self.data_dir
  ELSE IF TruthyStr(override) THEN override ELSE self.data_dir

\* The data_dir property (the warning it logs is not modelled).
LoaderDataDir(self, override) ==
  IF TruthyStr(override) THEN override ELSE self.data_dir

\* The builder property: self after the access, and the builder.
LoaderBuilder(self, override) ==
  IF ~IsNone(self.builder) THEN [self |-> self, builder |-> The(self.builder)]
  ELSE LET b == TfdsBuilder(self.name, LoaderDataDir(self, override), None)
       IN  [self |-> [self EXCEPT !.builder = Some(b), !.probed = TRUE],
            builder |-> b]

\* The info property.
LoaderInfo(self, override) ==
  LET b == LoaderBuilder(self, override)
  IN  [self |-> b.self, ret |-> Ok(BuilderInfo(b.builder))]

\* verify_split: InvalidSplit is the ValueError.
LoaderVerifySplit(self, split, override) ==
  LET b == LoaderBuilder(self, override)
  IN  [self |-> b.self,
       ret |-> IF split \in BuilderInfo(b.builder).splits THEN Ok(None)
               ELSE Raise("InvalidSplit")]

\* size: np.inf is [finite |-> FALSE].
LoaderSize(self, split, override) ==
  LET v == LoaderVerifySplit(self, split, override)
      n == NumExamples(self.name, split)
  IN  IF ~v.ret.ok THEN v
      ELSE [self |-> v.self,
            ret |-> Ok(IF n > 0 THEN [finite |-> TRUE, n |-> n]
                       ELSE [finite |-> FALSE, n |-> 0])]

\* _get_builder_files: a path is the directory, the dataset, the config
\* and the split.
GetBuilderFiles(builder, split) ==
  {<<builder.data_dir, Head(builder.name), builder.config, split>>}

\* files: with several configs and none named, the files of every config,
\* each from a builder made without a directory.
LoaderFiles(self, split, override) ==
  LET v == LoaderVerifySplit(self, split, override)
      b == The(v.self.builder)
      configs == BuilderConfigs(self.name)
  IN  IF ~v.ret.ok THEN v
      ELSE [self |-> v.self,
            ret |-> Ok(IF configs # {} /\ "/" \notin Range(self.name)
                       THEN UNION {GetBuilderFiles(
                                     TfdsBuilder(b.name, None, Some(c)),
                                     split) : c \in configs}
                       ELSE GetBuilderFiles(b, split))]

\* load: tfds.load reads the directory data_dir gives at the call.
LoaderLoad(self, split, shuffle_files, override) ==
  LET v == LoaderVerifySplit(self, split, override)
  IN  IF ~v.ret.ok THEN v
      ELSE [self |-> v.self,
            ret |-> Ok([name |-> self.name, split |-> split,
                        data_dir |-> LoaderDataDir(self, override),
                        shuffle_files |-> shuffle_files])]

\* The loaders after the builder property of those in ids was read.
Probed(lds, ids, override) ==
  [i \in DOMAIN lds |->
     IF i \in ids THEN LoaderBuilder(lds[i], override).self ELSE lds[i]]

\* The loader state of a program that has constructed no Task, and of one
\* whose Tasks were all constructed on the dataset of NoKw.
NoLoaders ==
  /\ tfds_data_dir_override = None
  /\ memoized_instances = EmptyDict
  /\ loaders = <<>>

TaskLoaders ==
  LET l == LazyTfdsLoaderNew(EmptyDict, <<>>, NoKw.tfds_name,
                             NoKw.tfds_data_dir)
  IN  /\ tfds_data_dir_override = None
      /\ memoized_instances = l.memo
      /\ loaders = l.loaders

\* task.tfds_dataset, by identity: the instance memoized for the key that
\* Task.__init__ constructed it with.
TfdsDataset(task) == memoized_instances[task.tfds]

\* What a constructor call that gave `provider` does to the loaders: a Task
\* whose name and TFDS name passed the checks constructs its loader.
ConstructLoader(provider_cls, args, provider) ==
  IF provider_cls = "Task" /\ provider.ok
  THEN LET l == LazyTfdsLoaderNew(memoized_instances, loaders,
                                  args.kw.tfds_name, args.kw.tfds_data_dir)
       IN  /\ memoized_instances' = l.memo
           /\ loaders' = l.loaders
           /\ UNCHANGED tfds_data_dir_override
  ELSE UNCHANGED loader_vars

\* What reading the builder of the loaders of the Tasks in ids does.
ProbeLoaders(ids) ==
  /\ loaders' = Probed(loaders, {TfdsDataset(heap[id]) : id \in ids},
                       tfds_data_dir_override)
  /\ UNCHANGED <<tfds_data_dir_override, memoized_instances>>

\* The Tasks whose get_dataset the list comprehension of
\* Mixture.get_dataset calls: those up to the first that raises.
RECURSIVE AttemptedTasks(_, _, _)
AttemptedTasksStep(r, ids, args, hp) ==
  {Head(ids)} \cup
    IF r.ret.ok
    THEN AttemptedTasks(Tail(ids), args, [hp EXCEPT ![Head(ids)] = r.self])
    ELSE {}

AttemptedTasks(ids, args, hp) ==
  IF ids = <<>> THEN {}
  ELSE AttemptedTasksStep(TaskGetDataset(hp[Head(ids)], args.sequence_length,
                                         args.split, args.use_cached,
                                         args.shuffle, args.dirs,
                                         args.markers),
                          ids, args, hp)

\* The Tasks whose loader Mixture.get_dataset reads the builder of: a Task
\* with no splits of its own when the split is looked for, and a Task that
\* loads its examples from TFDS.
MixtureProbes(self, sequence_length, split, use_cached, shuffle, hp, dirs, markers) ==
  {id \in Range(self.tasks) : ~TruthyList(hp[id].splits)} \cup
    IF use_cached THEN {}
    ELSE AttemptedTasks(
           SelectSeq(self.tasks, LAMBDA id : split \in TaskSplits(hp[id])),
           [sequence_length |-> sequence_length, split |-> split,
            use_cached |-> use_cached, shuffle |-> shuffle, dirs |-> dirs,
            markers |-> markers],
           hp)

\* ------------------------------------------------------------------------
\* Calls on the globals and on a Task instance, as steps of the program.

TaskIds == {id \in DOMAIN heap : heap[id].cls = "Task"}

\* set_global_cache_dirs
SetGlobalCacheDirs(dirs) ==
  /\ global_cache_dirs' = dirs
  /\ call' = [op |-> "set_global_cache_dirs", dirs |-> dirs]
  /\ ret' = Ok(None)
  /\ UNCHANGED <<loader_vars, completed, heap, next_id, task_registry, mixture_registry>>

\* add_global_cache_dirs
AddGlobalCacheDirs(dirs) ==
  /\ Len(global_cache_dirs) + Len(dirs) <= MaxDirs
  /\ global_cache_dirs' = global_cache_dirs \o dirs
  /\ call' = [op |-> "add_global_cache_dirs", dirs |-> dirs]
  /\ ret' = Ok(None)
  /\ UNCHANGED <<loader_vars, completed, heap, next_id, task_registry, mixture_registry>>

\* A cache writer finishes the directory dir: the COMPLETED file appears.
CreateCompleted(dir) ==
  /\ dir \notin completed
  /\ completed' = completed \cup {dir}
  /\ call' = [op |-> "create_completed", dir |-> dir]
  /\ ret' = Ok(None)
  /\ UNCHANGED <<loader_vars, global_cache_dirs, heap, next_id, task_registry,
                 mixture_registry>>

\* The COMPLETED file of dir is deleted.
RemoveCompleted(dir) ==
  /\ dir \in completed
  /\ completed' = completed \ {dir}
  /\ call' = [op |-> "remove_completed", dir |-> dir]
  /\ ret' = Ok(None)
  /\ UNCHANGED <<loader_vars, global_cache_dirs, heap, next_id, task_registry,
                 mixture_registry>>

\* task.initialize()
DoInitialize(id) ==
  /\ heap' = [heap EXCEPT
                ![id] = Initialize(@, global_cache_dirs, completed)]
  /\ call' = [op |-> "initialize", self |-> id]
  /\ ret' = Ok(None)
  /\ UNCHANGED <<loader_vars, global_cache_dirs, completed, next_id, task_registry,
                 mixture_registry>>

\* task.cached
DoCached(id) ==
  LET r == Cached(heap[id], global_cache_dirs, completed)
  IN  /\ heap' = [heap EXCEPT ![id] = r.self]
      /\ call' = [op |-> "cached", self |-> id]
      /\ ret' = r.ret
      /\ UNCHANGED <<loader_vars, global_cache_dirs, completed, next_id, task_registry,
                     mixture_registry>>

\* task.cache_dir
DoCacheDir(id) ==
  LET r == CacheDir(heap[id], global_cache_dirs, completed)
  IN  /\ heap' = [heap EXCEPT ![id] = r.self]
      /\ call' = [op |-> "cache_dir", self |-> id]
      /\ ret' = r.ret
      /\ UNCHANGED <<loader_vars, global_cache_dirs, completed, next_id, task_registry,
                     mixture_registry>>

\* task.get_dataset(sequence_length, split, use_cached, shuffle)
DoTaskGetDataset(id, sequence_length, split, use_cached, shuffle) ==
  LET r == TaskGetDataset(heap[id], sequence_length, split, use_cached,
                          shuffle, global_cache_dirs, completed)
  IN  /\ heap' = [heap EXCEPT ![id] = r.self]
      /\ call' = [op |-> "get_dataset", self |-> id,
                  sequence_length |-> sequence_length, split |-> split,
                  use_cached |-> use_cached, shuffle |-> shuffle]
      /\ ret' = r.ret
      /\ ProbeLoaders(IF use_cached THEN {} ELSE {id})
      /\ UNCHANGED <<global_cache_dirs, completed, next_id, task_registry,
                     mixture_registry>>

\* ------------------------------------------------------------------------
\* The registries.  reg is "TaskRegistry" or "MixtureRegistry".

Registry(reg) ==
  IF reg = "TaskRegistry" THEN task_registry ELSE mixture_registry

\* _PROVIDER_TYPE
ProviderType(reg) == IF reg = "TaskRegistry" THEN "Task" ELSE "Mixture"

\* provider_cls(*provider_args, **provider_kwargs)
Construct(provider_cls, args, re_unicode) ==
  IF provider_cls = "Task" THEN TaskInit(args.name, args.kw, re_unicode)
  ELSE MixtureInit(args.tasks, args.default_rate, task_registry, heap)

\* Mutant: no check for a name that is registered already.
ProviderRegistryAdd_Overwrite(reg, name, provider_cls, args) ==
  \E re_unicode \in BOOLEAN :
     LET provider == Construct(provider_cls, args, re_unicode)
     IN  /\ call' = [op |-> "add", reg |-> reg, name |-> name,
                     provider_cls |-> provider_cls, args |-> args]
         /\ ConstructLoader(provider_cls, args, provider)
         /\ IF ~provider.ok
            THEN /\ ret' = provider
                 /\ UNCHANGED <<heap, next_id, task_registry,
                                mixture_registry>>
            ELSE /\ ret' = Ok(None)
                 /\ heap' = DictSet(heap, next_id, provider.val)
                 /\ next_id' = next_id + 1
                 /\ IF reg = "TaskRegistry"
                    THEN /\ task_registry' =
                              DictSet(task_registry, name, next_id)
                         /\ UNCHANGED mixture_registry
                    ELSE /\ mixture_registry' =
                              DictSet(mixture_registry, name, next_id)
                         /\ UNCHANGED task_registry
         /\ UNCHANGED <<global_cache_dirs, completed>>

\* DatasetProviderRegistry.add: DuplicateRegistration and
\* InvalidProviderType are ValueError; an error of the constructor passes
\* through.  A provider that is stored gets the next identity.
ProviderRegistryAdd(reg, name, provider_cls, args) ==
  \E re_unicode \in BOOLEAN :
     LET provider == Construct(provider_cls, args, re_unicode)
         failed(e) == /\ ret' = e
                      /\ UNCHANGED <<heap, next_id, task_registry,
                                     mixture_registry>>
     IN  /\ call' = [op |-> "add", reg |-> reg, name |-> name,
                     provider_cls |-> provider_cls, args |-> args]
         /\ IF name \in DOMAIN Registry(reg) THEN UNCHANGED loader_vars
            ELSE ConstructLoader(provider_cls, args, provider)
         /\ IF name \in DOMAIN Registry(reg)
            THEN failed(Raise("DuplicateRegistration"))
            ELSE IF ~provider.ok THEN failed(provider)
            ELSE IF provider.val.cls # ProviderType(reg)
            THEN failed(Raise("InvalidProviderType"))
            ELSE /\ ret' = Ok(None)
                 /\ heap' = DictSet(heap, next_id, provider.val)
                 /\ next_id' = next_id + 1
                 /\ IF reg = "TaskRegistry"
                    THEN /\ task_registry' =
                              DictSet(task_registry, name, next_id)
                         /\ UNCHANGED mixture_registry
                    ELSE /\ mixture_registry' =
                              DictSet(mixture_registry, name, next_id)
                         /\ UNCHANGED task_registry
         /\ UNCHANGED <<global_cache_dirs, completed>>

\* TaskRegistry.add(name, **kwargs)
TaskRegistryAdd(name, kw) ==
  ProviderRegistryAdd("TaskRegistry", name, "Task",
                      [name |-> name, kw |-> kw])

\* MixtureRegistry.add(name, tasks, default_rate)
MixtureRegistryAdd(name, tasks, default_rate) ==
  ProviderRegistryAdd("MixtureRegistry", name, "Mixture",
                      [tasks |-> tasks, default_rate |-> default_rate])

\* DatasetProviderRegistry.get: the instance, by its identity.
RegistryGet(reg, name) ==
  /\ call' = [op |-> "get", reg |-> reg, name |-> name]
  /\ ret' = IF name \notin DOMAIN Registry(reg) THEN Raise("NotFound")
            ELSE Ok(Registry(reg)[name])
  /\ UNCHANGED <<loader_vars, global_cache_dirs, completed, heap, next_id, task_registry,
                 mixture_registry>>

\* DatasetProviderRegistry.names
RegistryNames(reg) ==
  /\ call' = [op |-> "names", reg |-> reg]
  /\ ret' = Ok(DOMAIN Registry(reg))
  /\ UNCHANGED <<loader_vars, global_cache_dirs, completed, heap, next_id, task_registry,
                 mixture_registry>>

\* DatasetProviderRegistry.get_dataset
RegistryGetDataset(reg, name, sequence_length, split, use_cached, shuffle) ==
  LET id == Registry(reg)[name]
      r == IF heap[id].cls = "Task"
           THEN LET t == TaskGetDataset(heap[id], sequence_length, split,
                                        use_cached, shuffle,
                                        global_cache_dirs, completed)
                IN  [heap |-> [heap EXCEPT ![id] = t.self], ret |-> t.ret]
           ELSE MixtureGetDataset(heap[id], sequence_length, split,
                                  use_cached, shuffle, FALSE, heap,
                                  global_cache_dirs, completed)
  IN  /\ call' = [op |-> "registry_get_dataset", reg |-> reg, name |-> name,
                  sequence_length |-> sequence_length, split |-> split,
                  use_cached |-> use_cached, shuffle |-> shuffle]
      /\ IF name \notin DOMAIN Registry(reg)
         THEN ret' = Raise("NotFound") /\ UNCHANGED <<heap, loader_vars>>
         ELSE /\ ret' = r.ret
              /\ heap' = r.heap
              /\ ProbeLoaders(
                   IF heap[id].cls = "Task"
                   THEN IF use_cached THEN {} ELSE {id}
                   ELSE MixtureProbes(heap[id], sequence_length, split,
                                      use_cached, shuffle, heap,
                                      global_cache_dirs, completed))
      /\ UNCHANGED <<global_cache_dirs, completed, next_id, task_registry,
                     mixture_registry>>

\* mixture.get_dataset(sequence_length, split, use_cached, shuffle,
\* compute_stats_empirically)
DoMixtureGetDataset(id, sequence_length, split, use_cached, shuffle, compute_stats_empirically) ==
  LET r == MixtureGetDataset(heap[id], sequence_length, split, use_cached,
                             shuffle, compute_stats_empirically, heap,
                             global_cache_dirs, completed)
  IN  /\ call' = [op |-> "mixture_get_dataset", self |-> id,
                  sequence_length |-> sequence_length, split |-> split,
                  use_cached |-> use_cached, shuffle |-> shuffle,
                  compute_stats_empirically |-> compute_stats_empirically]
      /\ ret' = r.ret
      /\ heap' = r.heap
      /\ ProbeLoaders(MixtureProbes(heap[id], sequence_length, split,
                                    use_cached, shuffle, heap,
                                    global_cache_dirs, completed))
      /\ UNCHANGED <<global_cache_dirs, completed, next_id, task_registry,
                     mixture_registry>>

\* ------------------------------------------------------------------------
\* The registries at work: Tasks and Mixtures are added, looked up and
\* asked for datasets.

Registries == {"TaskRegistry", "MixtureRegistry"}
MixtureM == <<"m">>
GetDatasetLengths == {[inputs |-> 2, targets |-> 3]}

RegTaskNames == {TaskA, TaskB, <<"a", " ">>}
RegTaskKws ==
  {NoKw,
   [NoKw EXCEPT !.output_features = Some(<<"inputs">>)],
   [NoKw EXCEPT !.sentencepiece_model_path = "spm2"],
   [NoKw EXCEPT !.tfds_name = <<"ds">>]}

Bare(name) == [name |-> name, rate |-> None]
Pair(name, rate) == [name |-> name, rate |-> Some(rate)]

RegMixtureArgs ==
  {[tasks |-> <<Bare(TaskA)>>, default_rate |-> None],
   [tasks |-> <<Pair(TaskA, Num(3)), Pair(TaskB, Num(1))>>,
    default_rate |-> None],
   [tasks |-> <<Bare(TaskA), Pair(TaskB, Fn("rate_by_task"))>>,
    default_rate |-> Some(Num(2))]}

RegNames == {TaskA, TaskB, MixtureM}

Init ==
  /\ global_cache_dirs = <<"r1">>
  /\ completed = {PathJoin("r1", TaskA)}
  /\ heap = EmptyDict
  /\ next_id = 1
  /\ task_registry = EmptyDict
  /\ mixture_registry = EmptyDict
  /\ call = NoCall
  /\ ret = Pending
  /\ NoLoaders

Next ==
  \/ \E name \in RegTaskNames, kw \in RegTaskKws : TaskRegistryAdd(name, kw)
  \/ \E a \in RegMixtureArgs :
        MixtureRegistryAdd(MixtureM, a.tasks, a.default_rate)
  \/ \E a \in RegMixtureArgs :
        ProviderRegistryAdd("TaskRegistry", MixtureM, "Mixture", a)
  \/ \E name \in {TaskA, MixtureM} :
        ProviderRegistryAdd("MixtureRegistry", name, "Task",
                            [name |-> name, kw |-> NoKw])
  \/ \E reg \in Registries, name \in RegNames : RegistryGet(reg, name)
  \/ \E reg \in Registries : RegistryNames(reg)
  \/ \E reg \in Registries, name \in RegNames, sl \in GetDatasetLengths,
        split \in {"train", "test"}, use_cached \in BOOLEAN :
        RegistryGetDataset(reg, name, sl, split, use_cached, FALSE)

Spec == Init /\ [][Next]_vars

\* ------------------------------------------------------------------------
\* Cache resolution: a registered Task, the cache roots and the COMPLETED
\* files changing under it.

CacheDirLists == SeqsUpTo(Roots, MaxDirs)
\* The directories of TaskA under both roots, and one of another name.
CacheDirectories ==
  {PathJoin("r1", TaskA), PathJoin("r2", TaskA), PathJoin("r1", TaskB)}
CacheSplits == {"train", "test"}

InitCache ==
  /\ global_cache_dirs = <<>>
  /\ completed = {}
  /\ heap = (1 :> TaskInit(TaskA, NoKw, TRUE).val)
  /\ next_id = 2
  /\ task_registry = (TaskA :> 1)
  /\ mixture_registry = EmptyDict
  /\ call = NoCall
  /\ ret = Pending
  /\ TaskLoaders

NextCache ==
  \/ \E dirs \in CacheDirLists : SetGlobalCacheDirs(dirs)
  \/ \E dirs \in CacheDirLists : AddGlobalCacheDirs(dirs)
  \/ \E dir \in CacheDirectories : CreateCompleted(dir)
  \/ \E dir \in CacheDirectories : RemoveCompleted(dir)
  \/ \E id \in TaskIds : DoInitialize(id)
  \/ \E id \in TaskIds : DoCached(id)
  \/ \E id \in TaskIds : DoCacheDir(id)
  \/ \E id \in TaskIds, sl \in GetDatasetLengths, split \in CacheSplits,
        use_cached \in BOOLEAN, shuffle \in BOOLEAN :
        DoTaskGetDataset(id, sl, split, use_cached, shuffle)

SpecCache == InitCache /\ [][NextCache]_vars

\* ------------------------------------------------------------------------
\* The token stage on its own: one Task, one example, one call of
\* Task.preprocess_tokens.

Vocab == {EOS, 2, 3}

TokenTaskKws ==
  {[NoKw EXCEPT !.output_features = o, !.token_preprocessor = p] :
     o \in {None, Some(<<"inputs">>)},
     p \in {None, Some(<<"prefix">>), Some(<<"prefix", "eos_mark">>)}}

TokenDatasets ==
  {[f \in Features |-> [dtype |-> "int64", rank |-> 1, v |-> vs[f]]] :
     vs \in [Features -> SeqsUpTo(Vocab, MaxLen)]}

SequenceLengths == [Features -> 0..(MaxLen + 1)]

InitTokens ==
  /\ global_cache_dirs = <<>>
  /\ completed = {}
  /\ \E kw \in TokenTaskKws :
        heap = (1 :> TaskInit(<<"a">>, kw, TRUE).val)
  /\ next_id = 2
  /\ task_registry = (<<"a">> :> 1)
  /\ mixture_registry = EmptyDict
  /\ \E ds \in TokenDatasets, sl \in SequenceLengths :
        call = [op |-> "preprocess_tokens", self |-> 1,
                dataset |-> ds, sequence_length |-> sl]
  /\ ret = Pending
  /\ TaskLoaders

TaskPreprocessTokens ==
  /\ call.op = "preprocess_tokens"
  /\ ret = Pending
  /\ ret' = PreprocessTokens(heap[call.self], call.dataset,
                             call.sequence_length)
  /\ UNCHANGED <<loader_vars, global_cache_dirs, completed, heap, next_id, task_registry,
                 mixture_registry, call>>

NextTokens == TaskPreprocessTokens

SpecTokens == InitTokens /\ [][NextTokens]_vars

\* The call of preprocess_tokens has returned or raised.
TokensDone == call.op = "preprocess_tokens" /\ ret # Pending

\* The dataset as the token preprocessors leave it, before validation.
AfterTokenPreps ==
  PreprocessDataset(call.dataset, heap[call.self].token_preprocessor,
                    call.sequence_length)

OutputFeaturesOfCall == Range(heap[call.self].output_features)

\* Feature feat of the returned example has length min(L, original + 1) and
\* ends in EOS.
TrimmedToLength(feat) ==
  LET out == ret.val[feat].v
      orig == AfterTokenPreps[feat].v
  IN  /\ Len(out) = Min(call.sequence_length[feat], Len(orig) + 1)
      /\ Len(out) > 0
      /\ out[Len(out)] = EOS

\* C3 as stated: for every requested length L, every declared output feature
\* of an example leaving preprocess_tokens has length min(L, original + 1)
\* and ends in EOS, and the other features are unchanged.
C3_AnyLength ==
  (TokensDone /\ ret.ok) =>
     \A feat \in DOMAIN ret.val :
        IF feat \in OutputFeaturesOfCall
        THEN TrimmedToLength(feat)
        ELSE ret.val[feat] = AfterTokenPreps[feat]

\* C3 amended: the same for every requested length L >= 1 (with L = 0 the
\* slice v[:-1] drops one element and the result is not empty).
C3_PositiveLength ==
  (TokensDone /\ ret.ok) =>
     \A feat \in DOMAIN ret.val :
        IF feat \in OutputFeaturesOfCall
        THEN call.sequence_length[feat] >= 1 => TrimmedToLength(feat)
        ELSE ret.val[feat] = AfterTokenPreps[feat]

\* An example is returned with an output feature cut to L >= 1, beside a
\* feature that is not a declared output.
C3_Witness ==
  /\ TokensDone /\ ret.ok
  /\ \E feat \in OutputFeaturesOfCall :
        /\ call.sequence_length[feat] >= 1
        /\ call.sequence_length[feat] <= Len(AfterTokenPreps[feat].v)
        /\ Len(ret.val[feat].v) = call.sequence_length[feat]
  /\ \E feat \in DOMAIN ret.val : feat \notin OutputFeaturesOfCall

\* EOS stands at a position before the last of a declared output feature of
\* the dataset the token preprocessors made.
EosInside ==
  \E feat \in OutputFeaturesOfCall :
     \E i \in 1..(Len(AfterTokenPreps[feat].v) - 1) :
        AfterTokenPreps[feat].v[i] = EOS

\* C4: when the token preprocessors' output carries EOS at a non-final
\* position of a declared output feature, preprocess_tokens raises
\* UnexpectedEosError and returns no example.
C4_EosInsideRejected ==
  (TokensDone /\ EosInside) => ret = Raise("UnexpectedEosError")

C4_Witness ==
  TokensDone /\ EosInside /\ ret = Raise("UnexpectedEosError")

\* The input of the call is finished already: every declared output feature
\* has length L = sequence_length[feature] and ends in EOS, and the Task has
\* no token preprocessor.
FinishedInput ==
  /\ heap[call.self].token_preprocessor = <<>>
  /\ \A feat \in OutputFeaturesOfCall :
        LET v == call.dataset[feat].v
        IN  /\ Len(v) = call.sequence_length[feat]
            /\ Len(v) >= 1
            /\ v[Len(v)] = EOS

\* C9 as stated: on finished input preprocess_tokens returns the identical
\* sequences.
C9_Idempotent ==
  (TokensDone /\ FinishedInput) => (ret.ok /\ ret.val = call.dataset)

\* C9 amended: on finished input the trim-plus-EOS step maps every sequence
\* to itself, but preprocess_tokens as a whole raises UnexpectedEosError,
\* since its validation allows no EOS before the trim.
C9_TrimIdempotentButRejected ==
  (TokensDone /\ FinishedInput) =>
     /\ ret = Raise("UnexpectedEosError")
     /\ \A feat \in DOMAIN call.dataset :
           TrimAndAppendEos(heap[call.self], call.sequence_length, feat,
                            call.dataset[feat].v) = call.dataset[feat].v

C9_Witness ==
  TokensDone /\ FinishedInput /\ ~ret.ok

\* ------------------------------------------------------------------------
\* Task construction on its own: one call of Task(name, ...).

TaskNameInputs == SeqsUpTo(NameChars, MaxNameLen)

NameTaskKws == {NoKw, [NoKw EXCEPT !.tfds_name = <<"ds">>]}

InitName ==
  /\ global_cache_dirs = <<>>
  /\ completed = {}
  /\ heap = EmptyDict
  /\ next_id = 1
  /\ task_registry = EmptyDict
  /\ mixture_registry = EmptyDict
  /\ \E name \in TaskNameInputs, kw \in NameTaskKws :
        call = [op |-> "Task", name |-> name, kw |-> kw]
  /\ ret = Pending
  /\ NoLoaders

\* Task(name, **kw) under either flavour of \w (Python 2 or Python 3).
TaskConstruct ==
  /\ call.op = "Task"
  /\ ret = Pending
  /\ \E re_unicode \in BOOLEAN :
        /\ ret' = TaskInit(call.name, call.kw, re_unicode)
        /\ ConstructLoader("Task", call, TaskInit(call.name, call.kw,
                                                  re_unicode))
  /\ UNCHANGED <<global_cache_dirs, completed, heap, next_id, task_registry,
                 mixture_registry, call>>

NextName == TaskConstruct

SpecName == InitName /\ [][NextName]_vars

\* The characters A-Z, a-z, 0-9, underscore and dot, as far as the model
\* has them.
PlainNameChars == {"a", "b", "Z", "7", "_", "."}

\* C8: Task construction passes the name check for exactly the non-empty
\* strings made only of A-Z, a-z, 0-9, underscore and dot, and raises
\* InvalidName for every other string.
C8_ExactlyPlainNames ==
  (call.op = "Task" /\ ret # Pending) =>
     (ret # Raise("InvalidName")
        <=> (call.name # <<>> /\ Range(call.name) \subseteq PlainNameChars))

\* ------------------------------------------------------------------------
\* Mixtures.  The Tasks a and b are registered, each with one of a few
\* configurations, and both are cached under r1.

MixKwsA ==
  {NoKw,
   [NoKw EXCEPT !.splits = Some(<<"validation">>)],
   [NoKw EXCEPT !.splits = Some(<<>>)],
   [NoKw EXCEPT !.output_features = Some(<<"inputs", "inputs">>)]}

MixKwsB ==
  {NoKw,
   [NoKw EXCEPT !.splits = Some(<<"validation">>)],
   [NoKw EXCEPT !.token_preprocessor = Some(<<"prefix">>)],
   [NoKw EXCEPT !.output_features = Some(<<"inputs">>)],
   [NoKw EXCEPT !.sentencepiece_model_path = "spm2"]}

MixEntries ==
  {Bare(TaskA), Bare(TaskB), Pair(TaskA, Num(3)), Pair(TaskB, Num(1)),
   Pair(TaskB, Fn("rate_by_task"))}

MixTaskLists == SeqsUpTo(MixEntries, MaxTasks)
MixDefaultRates == {None, Some(Num(2))}

\* The heap and the TaskRegistry after TaskRegistry.add("a", **ka) and
\* TaskRegistry.add("b", **kb).
TwoTasksHeap(ka, kb) ==
  DictSet(DictSet(EmptyDict, 1, TaskInit(TaskA, ka, FALSE).val),
          2, TaskInit(TaskB, kb, FALSE).val)

TwoTasksRegistry == DictSet(DictSet(EmptyDict, TaskA, 1), TaskB, 2)

\* Construction: Mixtures of a and b are constructed.
InitBuild ==
  /\ global_cache_dirs = <<"r1">>
  /\ completed = {PathJoin("r1", TaskA), PathJoin("r1", TaskB)}
  /\ \E ka \in MixKwsA, kb \in MixKwsB : heap = TwoTasksHeap(ka, kb)
  /\ next_id = 3
  /\ task_registry = TwoTasksRegistry
  /\ mixture_registry = EmptyDict
  /\ call = NoCall
  /\ ret = Pending
  /\ TaskLoaders

\* Mixture(tasks, default_rate), the instance not kept.
MixtureConstruct(tasks, default_rate) ==
  /\ call' = [op |-> "Mixture", tasks |-> tasks,
              default_rate |-> default_rate]
  /\ ret' = MixtureInit(tasks, default_rate, task_registry, heap)
  /\ UNCHANGED <<loader_vars, global_cache_dirs, completed, heap, next_id, task_registry,
                 mixture_registry>>

NextBuild ==
  \E tasks \in MixTaskLists, default_rate \in MixDefaultRates :
     MixtureConstruct(tasks, default_rate)

SpecBuild == InitBuild /\ [][NextBuild]_vars

\* Retrieval: a Mixture m of a and b is registered as well, and it is asked
\* for datasets.
MixtureIds == {id \in DOMAIN heap : heap[id].cls = "Mixture"}

InitMix ==
  /\ global_cache_dirs = <<"r1">>
  /\ completed = {PathJoin("r1", TaskA), PathJoin("r1", TaskB)}
  /\ \E ka \in MixKwsA, kb \in MixKwsB, tasks \in MixTaskLists,
        default_rate \in MixDefaultRates :
        /\ MixtureInit(tasks, default_rate, TwoTasksRegistry,
                       TwoTasksHeap(ka, kb)).ok
        /\ heap = DictSet(TwoTasksHeap(ka, kb), 3,
                          MixtureInit(tasks, default_rate, TwoTasksRegistry,
                                      TwoTasksHeap(ka, kb)).val)
  /\ next_id = 4
  /\ task_registry = TwoTasksRegistry
  /\ mixture_registry = DictSet(EmptyDict, MixtureM, 3)
  /\ call = NoCall
  /\ ret = Pending
  /\ TaskLoaders

NextMix ==
  \E id \in MixtureIds, sl \in GetDatasetLengths, split \in Splits, use_cached \in BOOLEAN, compute_stats_empirically \in BOOLEAN :
     DoMixtureGetDataset(id, sl, split, use_cached, TRUE,
                         compute_stats_empirically)

SpecMix == InitMix /\ [][NextMix]_vars

\* ------------------------------------------------------------------------
\* Claims on cache resolution (SpecCache)

\* No configured root holds a COMPLETED file for Task id.
NoMarkerFor(id) ==
  \A i \in 1..Len(global_cache_dirs) :
     PathJoin(global_cache_dirs[i], heap[id].name) \notin completed

\* C5 as stated: when no configured cache root holds a COMPLETED marker for
\* the Task, Task.get_dataset, with use_cached set or not, does not fail
\* for the missing cache and returns the stream computed on the fly.
C5_NoCacheNeverAnError ==
  (call.op = "get_dataset" /\ NoMarkerFor(call.self)) =>
     /\ ret # Raise("NotCached")
     /\ ret.ok => ret.val.source = "raw"

\* C5 amended: when no configured cache root holds a COMPLETED marker for
\* the Task and the Task has resolved no cache directory before,
\* Task.initialize and Task.cached do not fail, and Task.get_dataset without
\* use_cached does not fail for the missing cache and returns the stream
\* computed on the fly; with use_cached set it fails with NotCached.
C5_NoCacheFailsOnlyUseCached ==
  (call.op \in {"initialize", "cached", "get_dataset"}
     /\ NoMarkerFor(call.self) /\ IsNone(heap[call.self].cache_dir)) =>
     CASE call.op = "initialize" -> ret = Ok(None)
       [] call.op = "cached" -> ret = Ok(FALSE)
       [] call.op = "get_dataset" ->
            IF call.use_cached THEN ret = Raise("NotCached")
            ELSE /\ ret # Raise("NotCached")
                 /\ ret.ok => ret.val.source = "raw"

\* get_dataset was called with use_cached set while roots are configured and
\* none holds the marker: it raised NotCached.
C5_Witness ==
  /\ call.op = "get_dataset" /\ call.use_cached
  /\ global_cache_dirs # <<>>
  /\ NoMarkerFor(call.self) /\ IsNone(heap[call.self].cache_dir)
  /\ ret = Raise("NotCached")

\* The directory under the earliest root of dirs that holds COMPLETED for
\* the name, or None.
EarliestCompleted(dirs, markers, name) ==
  LET valid == {i \in 1..Len(dirs) : PathJoin(dirs[i], name) \in markers}
  IN  IF valid = {} THEN None
      ELSE Some(PathJoin(dirs[CHOOSE i \in valid : \A j \in valid : i <= j],
                         name))

\* The step is a call on Task id that resolves its cache directory.
ResolvingCall(c, id) ==
  /\ c.op \in {"initialize", "cached", "cache_dir", "get_dataset"}
  /\ c.self = id
  /\ c.op = "get_dataset" => c.use_cached

\* C6: a resolved cache directory never changes, whatever is done to the
\* cache roots and the markers; a Task with none resolved searches on every
\* initialize / cached / cache_dir call (and get_dataset with use_cached) and
\* takes <root>/<task name> for the earliest root of the current list that
\* holds COMPLETED; nothing else resolves a cache directory.
C6_FirstValidRootThenFixed ==
  [][\A id \in TaskIds :
       /\ ~IsNone(heap[id].cache_dir) =>
             heap'[id].cache_dir = heap[id].cache_dir
       /\ (IsNone(heap[id].cache_dir) /\ ResolvingCall(call', id)) =>
             heap'[id].cache_dir =
               EarliestCompleted(global_cache_dirs, completed,
                                 heap[id].name)
       /\ (IsNone(heap[id].cache_dir) /\ ~ResolvingCall(call', id)) =>
             IsNone(heap'[id].cache_dir)]_vars

\* The directory a Task resolved has lost its marker and another root of the
\* list holds one now; initialize is called again and the directory is kept.
C6_Witness ==
  /\ call.op = "initialize"
  /\ ~IsNone(heap[call.self].cache_dir)
  /\ The(heap[call.self].cache_dir) \notin completed
  /\ EarliestCompleted(global_cache_dirs, completed, heap[call.self].name)
       \notin {None, heap[call.self].cache_dir}

\* ------------------------------------------------------------------------
\* Claims on the registries (Spec)

\* C7: a registry changes only by a successful add of a fresh name.  An add
\* of a name the registry holds fails with DuplicateRegistration; a failed
\* add, whatever its error, leaves the names of both registries, the
\* instance bound to each name and the instances themselves as they were; a
\* successful add binds the fresh name and keeps every other binding; no
\* other call changes a registry.
C7_WriteOnce ==
  [][/\ call'.op = "add" =>
          /\ call'.name \in DOMAIN Registry(call'.reg) =>
                ret' = Raise("DuplicateRegistration")
          /\ ~ret'.ok =>
                /\ task_registry' = task_registry
                /\ mixture_registry' = mixture_registry
                /\ heap' = heap
          /\ ret'.ok =>
                /\ call'.name \notin DOMAIN Registry(call'.reg)
                /\ \A n \in DOMAIN task_registry :
                      n \in DOMAIN task_registry'
                      /\ task_registry'[n] = task_registry[n]
                      /\ heap'[task_registry[n]] = heap[task_registry[n]]
                /\ \A n \in DOMAIN mixture_registry :
                      n \in DOMAIN mixture_registry'
                      /\ mixture_registry'[n] = mixture_registry[n]
                      /\ heap'[mixture_registry[n]] = heap[mixture_registry[n]]
                /\ (DOMAIN task_registry') \cup (DOMAIN mixture_registry') =
                     (DOMAIN task_registry) \cup (DOMAIN mixture_registry)
                       \cup {call'.name}
     /\ call'.op # "add" =>
          /\ task_registry' = task_registry
          /\ mixture_registry' = mixture_registry]_vars

\* Both registries hold a provider, and an add of a name that is registered
\* has failed with DuplicateRegistration.
C7_Witness ==
  /\ call.op = "add"
  /\ call.name \in DOMAIN Registry(call.reg)
  /\ ret = Raise("DuplicateRegistration")
  /\ task_registry # EmptyDict
  /\ mixture_registry # EmptyDict

\* ------------------------------------------------------------------------
\* Claims on Mixture construction (SpecBuild)

\* The Tasks that the entries of a task list name.
MembersOf(tasks) == {heap[task_registry[tasks[i].name]] : i \in 1..Len(tasks)}

\* All members have the same set of output features and the same
\* tokenizer-model path.
Compatible(tasks) ==
  \A x, y \in MembersOf(tasks) :
     /\ Range(x.output_features) = Range(y.output_features)
     /\ x.sentencepiece_model_path = y.sentencepiece_model_path

\* Every entry has a rate: its own, or the default rate.
EveryEntryHasRate(tasks, default_rate) ==
  \A i \in 1..Len(tasks) : ~IsNone(tasks[i].rate) \/ ~IsNone(default_rate)

\* The call is Mixture(tasks, default_rate) on a list of two or more
\* registered Tasks.
ConstructedFromTwoOrMore ==
  /\ call.op = "Mixture"
  /\ Len(call.tasks) >= 2
  /\ \A i \in 1..Len(call.tasks) :
        call.tasks[i].name \in DOMAIN task_registry

\* C2 as stated: for a list of two or more registered Tasks, construction
\* fails with IncompatibleMixtureError when the members differ in their
\* output-feature sets or in their tokenizer-model paths, and succeeds when
\* they agree in both and every entry has a rate.
C2_IncompatibleAlwaysThatError ==
  ConstructedFromTwoOrMore =>
     /\ ~Compatible(call.tasks) => ret = Raise("IncompatibleMixtureError")
     /\ (Compatible(call.tasks)
          /\ EveryEntryHasRate(call.tasks, call.default_rate)) => ret.ok

\* C2 amended: Mixture construction enforces compatibility.  For a list of two or
\* more registered Tasks: when the members differ in their output-feature
\* sets or in their tokenizer-model paths, construction fails, and with a
\* rate for every entry the failure is IncompatibleMixtureError (a bare
\* name without a default rate fails first, with MissingRate); when the
\* members agree in both and every entry has a rate, construction succeeds
\* and the Mixture holds the Tasks of the list in order.
C2_CompatibilityEnforced ==
  ConstructedFromTwoOrMore =>
     /\ ~Compatible(call.tasks) => ~ret.ok
     /\ (~Compatible(call.tasks)
          /\ EveryEntryHasRate(call.tasks, call.default_rate)) =>
            ret = Raise("IncompatibleMixtureError")
     /\ (Compatible(call.tasks)
          /\ EveryEntryHasRate(call.tasks, call.default_rate)) =>
            /\ ret.ok
            /\ ret.val.tasks =
                 [i \in 1..Len(call.tasks) |->
                    task_registry[call.tasks[i].name]]

\* Two Tasks that agree on the output features and differ in the
\* tokenizer-model path were given, each with a rate, and the construction
\* failed with IncompatibleMixtureError.
C2_Witness ==
  /\ call.op = "Mixture"
  /\ Len(call.tasks) >= 2
  /\ EveryEntryHasRate(call.tasks, call.default_rate)
  /\ \A x, y \in MembersOf(call.tasks) :
        Range(x.output_features) = Range(y.output_features)
  /\ ~Compatible(call.tasks)
  /\ ret = Raise("IncompatibleMixtureError")

\* ------------------------------------------------------------------------
\* Claims on Mixture retrieval (SpecMix)

\* The Task an entry of a task list names.
EntryTask(e) == heap[task_registry[e.name]]

\* The rate supplied for an entry, evaluated on its Task when callable.
EntryRate(e, default_rate) ==
  LET rate == The(IF IsNone(e.rate) THEN default_rate ELSE e.rate)
  IN  IF rate.kind = "fn" THEN CallRate(rate.fn, EntryTask(e)) ELSE rate.v

DeclaredSplits(task) ==
  IF ~IsNone(task.splits) THEN Range(The(task.splits))
  ELSE TfdsSplits(task.tfds[1])

\* C10: Mixture.get_dataset uses exactly the member Tasks that declare the
\* requested split, in construction order: it fails with NoAvailableTasks
\* when none declares it and only then, and the streams it returns are
\* those of the declaring Tasks, in order.
C10_DeclaringTasksOnly ==
  call.op = "mixture_get_dataset" =>
     LET declaring == SelectSeq(heap[call.self].tasks,
                                LAMBDA id : call.split \in
                                              DeclaredSplits(heap[id]))
     IN  /\ (declaring = <<>>) <=> (ret = Raise("NoAvailableTasks"))
         /\ ret.ok =>
               /\ Len(ret.val.datasets) = Len(declaring)
               /\ \A i \in 1..Len(declaring) :
                     ret.val.datasets[i].task = heap[declaring[i]].name

\* ------------------------------------------------------------------------
\* rate_num_examples.  A real number is [radicand, index]: the index-th root
\* of the radicand, the number itself when the index is 1.  The rounding of
\* floating point is left out.

Real(x) == [radicand |-> x, index |-> 1]

\* ret ** (1.0 / temperature) for a whole temperature; ZeroDivisionError is
\* the error of 1.0 / 0.
Power(x, temperature) ==
  IF temperature = 0 THEN Raise("ZeroDivisionError")
  ELSE Ok([radicand |-> x, index |-> temperature])

\* The body of rate_num_examples after task.get_cached_stats("train") (st).
RateOf(st, maximum, temperature, scale) ==
  IF ~st.ret.ok THEN st
  ELSE [self |-> st.self,
        ret |-> LET scaled == st.ret.val.examples * scale
                    capped == IF ~IsNone(maximum) /\ The(maximum) # 0
                              THEN Min(scaled, The(maximum))
                              ELSE scaled
                IN  IF temperature # 1 THEN Power(capped, temperature)
                    ELSE Ok(Real(capped))]

\* rate_num_examples(task, maximum, temperature, scale)
RateNumExamples(task, maximum, temperature, scale, dirs, markers) ==
  RateOf(GetCachedStats(task, "train", dirs, markers),
         maximum, temperature, scale)

\* rate_num_examples(task, maximum, temperature, scale), as a call
DoRateNumExamples(id, maximum, temperature, scale) ==
  LET r == RateNumExamples(heap[id], maximum, temperature, scale,
                           global_cache_dirs, completed)
  IN  /\ heap' = [heap EXCEPT ![id] = r.self]
      /\ call' = [op |-> "rate_num_examples", task |-> id,
                  maximum |-> maximum, temperature |-> temperature,
                  scale |-> scale]
      /\ ret' = r.ret
      /\ UNCHANGED <<loader_vars, global_cache_dirs, completed, next_id, task_registry,
                     mixture_registry>>

Maximums == {None, Some(0), Some(5), Some(100)}
Temperatures == {1, 2, 3}
Scales == {1, 2, 3}

\* The Task a is registered, cached under r1 and r2, and the cache roots are
\* set to some list.
InitRate ==
  /\ global_cache_dirs \in CacheDirLists
  /\ completed = {PathJoin("r1", TaskA), PathJoin("r2", TaskA)}
  /\ heap = (1 :> TaskInit(TaskA, NoKw, TRUE).val)
  /\ next_id = 2
  /\ task_registry = (TaskA :> 1)
  /\ mixture_registry = EmptyDict
  /\ call = NoCall
  /\ ret = Pending
  /\ TaskLoaders

NextRate ==
  \E id \in TaskIds, maximum \in Maximums, temperature \in Temperatures, scale \in Scales :
     DoRateNumExamples(id, maximum, temperature, scale)

SpecRate == InitRate /\ [][NextRate]_vars

\* The number of training examples in the statistics of the cache that a
\* Task has resolved.
CachedCount(task) == StatsFile(The(task.cache_dir), "train").examples

\* C11: rate_num_examples returns the cached training example count times
\* scale, capped at maximum whenever a maximum is given, and then raised to
\* the power 1/temperature when temperature is not 1.
C11_CappedWheneverGiven ==
  (call.op = "rate_num_examples" /\ ret.ok) =>
     LET scaled == CachedCount(heap[call.task]) * call.scale
         capped == IF ~IsNone(call.maximum)
                   THEN Min(scaled, The(call.maximum))
                   ELSE scaled
     IN  ret.val = [radicand |-> capped, index |-> call.temperature]

\* ------------------------------------------------------------------------
\* LazyTfdsLoader at work: instances are constructed, directly and by
\* Task.__init__, their properties and methods are called, and the
\* override directory is set.

MaxLoaders == 2   \* instances that direct constructions create

LoaderNames == {<<"ds", ":", "1.0.0">>, <<"multi", ":", "1.0.0">>}
LoaderDataDirs == {None, Some("d1")}
Overrides == {None, Some("o1")}
LoaderSplits == {"train", "test"}
LoaderTaskKws == {NoKw}

LoaderIds == DOMAIN loaders

\* set_tfds_data_dir_override
SetTfdsDataDirOverride(tfds_data_dir) ==
  /\ tfds_data_dir_override' = tfds_data_dir
  /\ call' = [op |-> "set_tfds_data_dir_override",
              tfds_data_dir |-> tfds_data_dir]
  /\ ret' = Ok(None)
  /\ UNCHANGED <<global_cache_dirs, completed, heap, next_id, task_registry,
                 mixture_registry, memoized_instances, loaders>>

\* LazyTfdsLoader(name, data_dir)
DoLazyTfdsLoader(name, data_dir) ==
  LET l == LazyTfdsLoaderNew(memoized_instances, loaders, name, data_dir)
  IN  /\ <<name, data_dir>> \in DOMAIN memoized_instances
           \/ Len(loaders) < MaxLoaders
      /\ memoized_instances' = l.memo
      /\ loaders' = l.loaders
      /\ call' = [op |-> "LazyTfdsLoader", name |-> name,
                  data_dir |-> data_dir]
      /\ ret' = Ok(l.id)
      /\ UNCHANGED <<global_cache_dirs, completed, heap, next_id,
                     task_registry, mixture_registry, tfds_data_dir_override>>

\* A property or method of the instance id, r what it gives.
LoaderCall(id, c, r) ==
  /\ loaders' = [loaders EXCEPT ![id] = r.self]
  /\ call' = c
  /\ ret' = r.ret
  /\ UNCHANGED <<global_cache_dirs, completed, heap, next_id, task_registry,
                 mixture_registry, tfds_data_dir_override, memoized_instances>>

\* loader.data_dir
DoLoaderDataDir(id) ==
  LoaderCall(id, [op |-> "data_dir", self |-> id],
             [self |-> loaders[id],
              ret |-> Ok(LoaderDataDir(loaders[id], tfds_data_dir_override))])

\* loader.info
DoLoaderInfo(id) ==
  LoaderCall(id, [op |-> "info", self |-> id],
             LoaderInfo(loaders[id], tfds_data_dir_override))

\* loader.verify_split(split)
DoLoaderVerifySplit(id, split) ==
  LoaderCall(id, [op |-> "verify_split", self |-> id, split |-> split],
             LoaderVerifySplit(loaders[id], split, tfds_data_dir_override))

\* loader.size(split)
DoLoaderSize(id, split) ==
  LoaderCall(id, [op |-> "size", self |-> id, split |-> split],
             LoaderSize(loaders[id], split, tfds_data_dir_override))

\* loader.files(split)
DoLoaderFiles(id, split) ==
  LoaderCall(id, [op |-> "files", self |-> id, split |-> split],
             LoaderFiles(loaders[id], split, tfds_data_dir_override))

\* loader.load(split, shuffle_files)
DoLoaderLoad(id, split, shuffle_files) ==
  LoaderCall(id, [op |-> "load", self |-> id, split |-> split,
                  shuffle_files |-> shuffle_files],
             LoaderLoad(loaders[id], split, shuffle_files,
                        tfds_data_dir_override))

InitLoader ==
  /\ global_cache_dirs = <<>>
  /\ completed = {}
  /\ heap = EmptyDict
  /\ next_id = 1
  /\ task_registry = EmptyDict
  /\ mixture_registry = EmptyDict
  /\ call = NoCall
  /\ ret = Pending
  /\ NoLoaders

NextLoader ==
  \/ \E d \in Overrides : SetTfdsDataDirOverride(d)
  \/ \E name \in LoaderNames, d \in LoaderDataDirs : DoLazyTfdsLoader(name, d)
  \/ \E name \in {TaskA}, kw \in LoaderTaskKws : TaskRegistryAdd(name, kw)
  \/ \E id \in LoaderIds : DoLoaderDataDir(id)
  \/ \E id \in LoaderIds : DoLoaderInfo(id)
  \/ \E id \in LoaderIds, split \in LoaderSplits :
        DoLoaderVerifySplit(id, split)
  \/ \E id \in LoaderIds, split \in LoaderSplits : DoLoaderSize(id, split)
  \/ \E id \in LoaderIds, split \in LoaderSplits : DoLoaderFiles(id, split)
  \/ \E id \in LoaderIds, split \in LoaderSplits :
        DoLoaderLoad(id, split, TRUE)

SpecLoader == InitLoader /\ [][NextLoader]_vars

\* The instances that the memo holds.
MemoizedIds == {memoized_instances[k] : k \in DOMAIN memoized_instances}

\* C12: constructing a LazyTfdsLoader preserves identity.  A construction
\* with a key (name, data_dir) that was constructed before returns the
\* instance that the memo holds for that key, so that both references name
\* one object and its cached builder; a construction with a new key returns
\* an instance that no other key has; and no construction changes the
\* instance of another key, so two different keys never share an instance.
C12_SameKeySameInstance ==
  /\ [](\A j, k \in DOMAIN memoized_instances :
           memoized_instances[j] = memoized_instances[k] => j = k)
  /\ [][call'.op = "LazyTfdsLoader" =>
          LET key == <<call'.name, call'.data_dir>>
          IN  /\ ret'.ok
              /\ ret'.val \in DOMAIN loaders'
              /\ memoized_instances' =
                   DictSet(memoized_instances, key, ret'.val)
              /\ IF key \in DOMAIN memoized_instances
                 THEN ret'.val = memoized_instances[key]
                 ELSE ret'.val \notin MemoizedIds \cup DOMAIN loaders
              /\ \A id \in DOMAIN loaders :
                    id # ret'.val => loaders'[id] = loaders[id]]_vars

\* A key is constructed again after another instance was made and had its
\* builder cached: the first instance comes back.
C12_Witness ==
  /\ call.op = "LazyTfdsLoader"
  /\ ret.ok /\ ret.val = 1
  /\ Len(loaders) = 2
  /\ ~IsNone(loaders[2].builder)
  /\ loaders[1].probed

\* C13: the metadata of an instance is fetched at most once.  Whatever the
\* sequence of constructions (direct, or by creating Tasks on the dataset)
\* and of info, verify_split, size, files and load calls, tfds.builder is
\* called to fill the builder of an instance only if it was never called
\* for that instance before, and a builder that is cached stays cached.
C13_FetchedAtMostOnce ==
  [][\A id \in DOMAIN loaders :
        /\ (IsNone(loaders[id].builder) /\ ~IsNone(loaders'[id].builder))
             => ~loaders[id].probed
        /\ ~IsNone(loaders[id].builder)
             => loaders'[id].builder = loaders[id].builder]_vars

\* C14: while an override directory is set it wins for every operation of
\* every instance, whatever directory the instance was constructed with:
\* data_dir returns it; info, verify_split, size and files read the
\* metadata of a builder made for it, and the files are under it; load
\* reads it.
C14_OverrideAlwaysWins ==
  TruthyStr(tfds_data_dir_override) =>
    LET override == The(tfds_data_dir_override)
    IN  /\ call.op = "data_dir" => ret.val = Some(override)
        /\ call.op \in {"info", "verify_split", "size", "files", "load"}
             => The(loaders[call.self].builder).data_dir = override
        /\ (call.op = "info" /\ ret.ok) => ret.val.data_dir = override
        /\ (call.op = "files" /\ ret.ok) => \A f \in ret.val : f[1] = override
        /\ (call.op = "load" /\ ret.ok) => ret.val.data_dir = Some(override)

\* ------------------------------------------------------------------------
\* Task.get_dataset, stage by stage: Tasks with text and token
\* preprocessors, cached under r1, asked for datasets from the cache and on
\* the fly.

StageTaskKws ==
  {[NoKw EXCEPT !.text_preprocessor = t, !.token_preprocessor = p,
                !.output_features = o] :
     t \in {None, Some(<<"append_y">>), Some(<<"drop_targets">>)},
     p \in {None, Some(<<"prefix">>), Some(<<"eos_mark">>)},
     o \in {None, Some(<<"inputs">>)}}
StageLengths == {[inputs |-> 2, targets |-> 2], [inputs |-> 4, targets |-> 3]}
StageSplits == {"train", "test"}

InitStages ==
  /\ global_cache_dirs \in {<<>>, <<"r1">>}
  /\ completed = {PathJoin("r1", TaskA)}
  /\ \E kw \in StageTaskKws : heap = (1 :> TaskInit(TaskA, kw, TRUE).val)
  /\ next_id = 2
  /\ task_registry = (TaskA :> 1)
  /\ mixture_registry = EmptyDict
  /\ call = NoCall
  /\ ret = Pending
  /\ TaskLoaders

NextStages ==
  \E id \in TaskIds, sequence_length \in StageLengths, split \in StageSplits,
     use_cached \in BOOLEAN, shuffle \in BOOLEAN :
     DoTaskGetDataset(id, sequence_length, split, use_cached, shuffle)

SpecStages == InitStages /\ [][NextStages]_vars

\* The examples after the stages of the claim, taken in its order from the
\* examples `start`: the token preprocessors, then the trim and EOS.
StagesTokens(self, start, sequence_length) ==
  PreprocessDataset(start, self.token_preprocessor, sequence_length)

StagesTrimmed(self, tokens, sequence_length) ==
  [k \in DOMAIN tokens |->
     [tokens[k] EXCEPT !.v = TrimAndAppendEos(self, sequence_length, k, @)]]

\* The text of the on-the-fly branch after the text preprocessors.
StagesText(self, split) ==
  PreprocessDataset(RawExample(self.tfds[1], split), self.text_preprocessor,
                    EmptyDict)

\* What get_dataset gives when its stages run in the claimed order from the
\* examples `start` (tokenized text, or the cached shards).
StagesOutcome(self, start, tokens, c) ==
  IF ~ValidateDataset(self, tokens, "int64", 1, TRUE).ok
  THEN ret = ValidateDataset(self, tokens, "int64", 1, TRUE)
  ELSE /\ ret.ok
       /\ ret.val.ex = StagesTrimmed(self, tokens, c.sequence_length)
       /\ ret.val.shuffled = c.shuffle
       /\ ret.val.source = IF c.use_cached THEN "cache" ELSE "raw"

StagesFrom(self, start, c) ==
  StagesOutcome(self, start, StagesTokens(self, start, c.sequence_length), c)

WithoutDiagnostics(self, tasks, d) ==
  IF ~d.ret.ok THEN d
  ELSE [heap |-> d.heap,
        ret |-> Ok([datasets |-> d.ret.val,
                    weights |-> [i \in 1..Len(tasks) |->
                                   GetRate(self, d.heap[tasks[i]])]])]

GetDatasetWithoutDiagnostics(self, c, hp, dirs, markers) ==
  LET tasks == SelectSeq(self.tasks,
                         LAMBDA id : c.split \in TaskSplits(hp[id]))
  IN  IF tasks = <<>> THEN [heap |-> hp, ret |-> Raise("NoAvailableTasks")]
      ELSE WithoutDiagnostics(
             self, tasks,
             GetDatasets(tasks, Range(hp[self.tasks[1]].output_features),
                         [sequence_length |-> c.sequence_length,
                          split |-> c.split, use_cached |-> c.use_cached,
                          shuffle |-> c.shuffle, dirs |-> dirs,
                          markers |-> markers],
                         hp, <<>>))

\* C16: the mixing diagnostics are a pure side effect of
\* Mixture.get_dataset.  Whatever the split, use_cached and
\* compute_stats_empirically, the call returns the stream or raises the
\* error that it would with the diagnostics removed, and leaves the Tasks
\* as that would.
C16_DiagnosticsChangeNothing ==
  [][call'.op = "mixture_get_dataset" =>
       /\ ret' = GetDatasetWithoutDiagnostics(heap[call'.self], call', heap,
                                              global_cache_dirs,
                                              completed).ret
       /\ heap' = GetDatasetWithoutDiagnostics(heap[call'.self], call', heap,
                                               global_cache_dirs,
                                               completed).heap]_vars

\* ------------------------------------------------------------------------
\* The analytic estimate of the mixing diagnostics: _estimated_mean_length
\* on cached Tasks whose training statistics are loaded, as they are when
\* _log_mixing_proportions runs.

MeanTaskKws ==
  {[NoKw EXCEPT !.token_preprocessor = p] :
     p \in {None, Some(<<>>), Some(<<"prefix">>), Some(<<"eos_mark">>),
            Some(<<"prefix", "eos_mark">>)}}
MeanLengths == [{"inputs", "targets"} -> 1..4]

\* _estimated_mean_length(task, key)
DoEstimatedMeanLength(id, key, sequence_length) ==
  /\ call' = [op |-> "estimated_mean_length", task |-> id, key |-> key,
              sequence_length |-> sequence_length]
  /\ ret' = Ok(EstimatedMeanLength(heap[id], key, sequence_length))
  /\ UNCHANGED <<global_cache_dirs, completed, heap, next_id, task_registry,
                 mixture_registry, loader_vars>>

InitMean ==
  /\ global_cache_dirs = <<"r1">>
  /\ completed = {PathJoin("r1", TaskA)}
  /\ \E kw \in MeanTaskKws :
        heap = (1 :> GetCachedStats(TaskInit(TaskA, kw, TRUE).val, "train",
                                    global_cache_dirs, completed).self)
  /\ next_id = 2
  /\ task_registry = (TaskA :> 1)
  /\ mixture_registry = EmptyDict
  /\ call = NoCall
  /\ ret = Pending
  /\ TaskLoaders

NextMean ==
  \E id \in TaskIds, key \in {"inputs", "targets"},
     sequence_length \in MeanLengths :
     DoEstimatedMeanLength(id, key, sequence_length)

SpecMean == InitMean /\ [][NextMean]_vars

\* The cached token count of the feature and the cached example count.
CachedTokens(task, key) ==
  IF key = "inputs" THEN StatsFile(The(task.cache_dir), "train").inputs_tokens
  ELSE StatsFile(The(task.cache_dir), "train").targets_tokens

\* The fraction f = <<numerator, denominator>> is the whole number n.
IsWhole(f, n) == f[2] > 0 /\ f[1] = n * f[2]

\* The fraction f is min(n, tokens / examples).
IsCappedMean(f, n, tokens, examples) ==
  f[2] > 0 /\ f[1] * examples = f[2] * Min(n * examples, tokens)

\* C17 as stated: without a token-preprocessing stage the estimate is
\* exactly the requested sequence length; with one it is the cached token
\* count over the cached example count, capped at the sequence length.
C17_NoStageExactLength ==
  call.op = "estimated_mean_length" =>
    LET task == heap[call.task]
        n == call.sequence_length[call.key]
    IN  IF task.token_preprocessor = <<>> THEN IsWhole(ret.val, n)
        ELSE IsCappedMean(ret.val, n, CachedTokens(task, call.key),
                          CachedCount(task))

\* C17: the analytic estimate of the mean length of a feature is exactly
\* the requested sequence length for a Task that has token preprocessors,
\* and for a Task that has none it is the cached token count of the
\* feature divided by the cached example count, capped at the requested
\* sequence length.
C17_StageExactLength ==
  call.op = "estimated_mean_length" =>
    LET task == heap[call.task]
        n == call.sequence_length[call.key]
    IN  IF task.token_preprocessor # <<>> THEN IsWhole(ret.val, n)
        ELSE IsCappedMean(ret.val, n, CachedTokens(task, call.key),
                          CachedCount(task))

\* A Task without token preprocessors whose cached mean (8 tokens in 4
\* examples) is below the requested length.
C17_Witness ==
  /\ call.op = "estimated_mean_length"
  /\ heap[call.task].token_preprocessor = <<>>
  /\ call.key = "inputs"
  /\ call.sequence_length["inputs"] = 3
  /\ ret.ok /\ ret.val = <<8, 4>>

====
